---- MODULE Spec2Model ----
(***************************************************************************)
(* Model of the scraper pipeline: website analysis, strategy selection,    *)
(* the per-term scrape loop of ScraperEngine, per-result enrichment of     *)
(* DataExtractor and its quality score.                                    *)
(*                                                                         *)
(* Python dicts are modelled as functions over their key strings, so that  *)
(* an absent key is really absent, dict.update is Update and dict.get is   *)
(* Get.                                                                    *)
(***************************************************************************)
EXTENDS Integers, Sequences, FiniteSets, TLC

VARIABLES
    pc,                   \* position of main(): start, discovered, loop, done; score_input, score_done
    PLAYWRIGHT_AVAILABLE, \* module flag of search_strategies.py
    search_terms,         \* the validated input list
    website_info,         \* the dict discover_website_structure returns
    results,              \* results['results'] of scrape_data
    results_error,        \* results['error'] of scrape_data ("" when the key is absent)
    strategy,             \* the local variable strategy of scrape_data
    i,                    \* number of search terms whose loop iteration has finished
    outcomes,             \* history: what happened to each finished term
    producer,             \* history: producer[k] is the term in process when results[k] was added
    trace,                \* history: searches, extractions and pauses, in order
    result,               \* the mapping handed to _calculate_quality_score
    score,                \* the value _calculate_quality_score returned
    argv,                 \* the url and search terms main() was started with
    exit_code,            \* None while main() runs, then the status it exits with
    engine,               \* TRUE once ScraperEngine has been constructed
    network,              \* TRUE once the run has issued an HTTP request
    output_written,       \* TRUE once save_results has written the output file
    PYCURL_AVAILABLE,     \* module flag of http_client.py
    use_pycurl,           \* HTTPClient.use_pycurl of the client whose calls SpecHttp follows
    http_log,             \* history: the requests the client's backends were handed
    response,             \* the number of HTTPClient calls made and what the last gave its caller
    arg,                  \* the argument of the function under check
    ret                   \* the value it returned

main_vars == <<argv, exit_code, engine, output_written>>

http_vars == <<PYCURL_AVAILABLE, use_pycurl, http_log, response>>

client_vars == <<PYCURL_AVAILABLE, use_pycurl, response>>

pure_vars == <<arg, ret>>

vars == <<pc, PLAYWRIGHT_AVAILABLE, search_terms, website_info, results,
          results_error, strategy, i, outcomes, producer, trace, result, score,
          main_vars, network, http_vars, pure_vars>>

(***************************************************************************)
(* Bounds of the model.                                                    *)
(***************************************************************************)
MaxTerms == 2
MaxRaw == 2
MaxForms == 1
MaxRobotsSitemaps == 1
MaxSitemapHits == 1
MaxFaults == 1
MaxImages == 2
MaxLinks == 3

(***************************************************************************)
(* Python values.                                                          *)
(***************************************************************************)
None == "<None>"
NoStrategy == "<NoStrategy>"

\* A value of a caller-supplied mapping: a string (a sequence of tokens, each a
\* whitespace character, an HTML entity or a run of other characters), or
\* something that is not a string.
StrV(tokens) == [type |-> "str", val |-> tokens]
IntV(n) == [type |-> "int", val |-> <<n>>]
NoneV == [type |-> "none", val |-> <<>>]
ListV(items) == [type |-> "list", val |-> items]
DictV(d) == [type |-> "dict", val |-> d]
isinstance_str(v) == v.type = "str"
isinstance_list(v) == v.type = "list"
isinstance_dict(v) == v.type = "dict"

Get(d, k, default) == IF k \in DOMAIN d THEN d[k] ELSE default

Update(a, b) == [k \in (DOMAIN a) \cup (DOMAIN b) |-> IF k \in DOMAIN b THEN b[k] ELSE a[k]]

Truthy(s) == s # "" /\ s # None

Whitespace == {" ", "\t", "\n"}

RECURSIVE lstrip(_)
lstrip(t) == IF t # <<>> /\ Head(t) \in Whitespace THEN lstrip(Tail(t)) ELSE t

RECURSIVE rstrip(_)
rstrip(t) ==
    IF t # <<>> /\ t[Len(t)] \in Whitespace THEN rstrip(SubSeq(t, 1, Len(t) - 1)) ELSE t

strip(t) == rstrip(lstrip(t))

\* sep.join(parts) for parts that are all strings
RECURSIVE join(_, _)
join(sep, parts) ==
    IF parts = <<>> THEN <<>>
    ELSE IF Len(parts) = 1 THEN Head(parts)
    ELSE Head(parts) \o sep \o join(sep, Tail(parts))

RECURSIVE SeqSum(_)
SeqSum(s) == IF s = <<>> THEN 0 ELSE Head(s) + SeqSum(Tail(s))

BaseUrl == "http://site"

(***************************************************************************)
(* WebsiteAnalyzer                                                         *)
(***************************************************************************)
SitemapPaths == <<"/sitemap.xml", "/sitemap_index.xml", "/sitemaps.xml", "/robots.txt">>

NumProbes == 7

analysis_defaults ==
    [has_search_form |-> FALSE, search_endpoints |-> <<>>, sitemap_urls |-> <<>>,
     search_params |-> <<>>, requires_js |-> FALSE, robots_txt |-> None,
     meta_info |-> <<>>, forms |-> <<>>, links |-> <<>>]

\* page.search_forms is the number of forms the detection patterns match.
_analyze_search_forms(page) ==
    [has_search_form |-> page.search_forms > 0,
     search_endpoints |-> [n \in 1..page.search_forms |-> BaseUrl \o "/search"],
     search_params |-> IF page.search_forms > 0 THEN <<"q">> ELSE <<>>,
     form_methods |-> [n \in 1..page.search_forms |-> "get"],
     search_inputs |-> [n \in 1..page.search_forms |-> "q"]]

\* head200 is the set of well-known paths that answer HEAD with status 200.
RECURSIVE ProbePaths(_, _)
ProbePaths(paths, head200) ==
    IF paths = <<>> THEN <<>>
    ELSE (IF Head(paths) \in head200 THEN <<BaseUrl \o Head(paths)>> ELSE <<>>)
         \o ProbePaths(Tail(paths), head200)

_analyze_sitemaps(head200) == [sitemap_urls |-> ProbePaths(SitemapPaths, head200)]

\* robots.refs are the URLs of the 'sitemap:' lines; setdefault creates the
\* key sitemap_urls in robots_info only when there is such a line.
_analyze_robots_txt(robots) ==
    IF robots.status_code = 200
    THEN IF robots.refs # <<>>
         THEN [robots_txt |-> "text", sitemap_urls |-> robots.refs]
         ELSE [robots_txt |-> "text"]
    ELSE [robots_txt |-> None]

_analyze_meta_info(page) == [meta_info |-> <<"title">>]

_analyze_javascript_requirements(page) == [requires_js |-> page.js]

_analyze_forms(page) == [forms |-> [n \in 1..page.search_forms |-> "form"]]

_analyze_links(page) == [links |-> <<>>]

Probe(k, page, head200, robots) ==
    CASE k = 1 -> _analyze_search_forms(page)
      [] k = 2 -> _analyze_sitemaps(head200)
      [] k = 3 -> _analyze_robots_txt(robots)
      [] k = 4 -> _analyze_meta_info(page)
      [] k = 5 -> _analyze_javascript_requirements(page)
      [] k = 6 -> _analyze_forms(page)
      [] OTHER -> _analyze_links(page)

RECURSIVE RunProbes(_, _, _, _, _)
RunProbes(analysis, k, page, head200, robots) ==
    IF k = 0 THEN analysis
    ELSE Update(RunProbes(analysis, k - 1, page, head200, robots),
                Probe(k, page, head200, robots))

\* failAt = 0: the homepage fetch raises; failAt = k in 1..NumProbes: probe k
\* raises after probes 1..k-1 have been merged; failAt > NumProbes: no failure.
analyze_website(failAt, page, head200, robots) ==
    IF failAt > NumProbes
    THEN RunProbes(analysis_defaults, NumProbes, page, head200, robots)
    ELSE Update(RunProbes(analysis_defaults, IF failAt = 0 THEN 0 ELSE failAt - 1,
                          page, head200, robots),
                [error |-> "error"])

(***************************************************************************)
(* Search strategies and their factory                                     *)
(***************************************************************************)
FormCanHandle(info) == Get(info, "has_search_form", FALSE)

SitemapCanHandle(info) == Get(info, "sitemap_urls", <<>>) # <<>>

QueryParamCanHandle_NotFallback(info) == Get(info, "requires_js", FALSE)

QueryParamCanHandle(info) == TRUE

PlaywrightCanHandle(info) ==
    IF ~PLAYWRIGHT_AVAILABLE THEN FALSE ELSE Get(info, "requires_js", FALSE)

can_handle(kind, info) ==
    CASE kind = "Form" -> FormCanHandle(info)
      [] kind = "Sitemap" -> SitemapCanHandle(info)
      [] kind = "QueryParam" -> QueryParamCanHandle(info)
      [] OTHER -> PlaywrightCanHandle(info)

strategies_SitemapFirst ==
    <<"Sitemap", "Form", "QueryParam">> \o (IF PLAYWRIGHT_AVAILABLE THEN <<"Playwright">> ELSE <<>>)

\* SearchStrategyFactory.__init__: self.strategies
strategies ==
    <<"Form", "Sitemap", "QueryParam">> \o (IF PLAYWRIGHT_AVAILABLE THEN <<"Playwright">> ELSE <<>>)

RECURSIVE FirstCanHandle(_, _)
FirstCanHandle(list, info) ==
    IF list = <<>> THEN NoStrategy
    ELSE IF can_handle(Head(list), info) THEN Head(list)
    ELSE FirstCanHandle(Tail(list), info)

get_best_strategy(info) == FirstCanHandle(strategies, info)

\* The words of each class name; SearchStrategy.__init__ removes the word
\* 'SearchStrategy' and lowercases what is left.
ClassName(kind) ==
    CASE kind = "Form" -> <<"Form", "SearchStrategy">>
      [] kind = "Sitemap" -> <<"Sitemap", "SearchStrategy">>
      [] kind = "QueryParam" -> <<"Query", "Param", "SearchStrategy">>
      [] OTHER -> <<"Playwright", "SearchStrategy">>

Lower(w) ==
    CASE w = "Form" -> "form"
      [] w = "Sitemap" -> "sitemap"
      [] w = "Query" -> "query"
      [] w = "Param" -> "param"
      [] w = "Playwright" -> "playwright"
      [] OTHER -> w

RECURSIVE LowerJoin(_)
LowerJoin(words) ==
    IF words = <<>> THEN ""
    ELSE (IF Head(words) = "SearchStrategy" THEN "" ELSE Lower(Head(words)))
         \o LowerJoin(Tail(words))

\* PlaywrightSearchStrategy is not a SearchStrategy and sets no name.
HasName(kind) == kind \in {"Form", "Sitemap", "QueryParam"}

name(kind) == LowerJoin(ClassName(kind))

\* The keys of strategy_map in get_strategy.
strategy_map ==
    [k \in {"form", "sitemap", "query_param"} \cup
           (IF PLAYWRIGHT_AVAILABLE THEN {"playwright"} ELSE {})
       |-> CASE k = "form" -> "Form"
             [] k = "sitemap" -> "Sitemap"
             [] k = "query_param" -> "QueryParam"
             [] OTHER -> "Playwright"]

get_strategy(strategy_name) == Get(strategy_map, strategy_name, NoStrategy)

(***************************************************************************)
(* ScraperEngine.discover_website_structure                                *)
(***************************************************************************)
website_info_defaults ==
    [url |-> BaseUrl, domain |-> "site", search_strategy |-> None,
     search_endpoints |-> <<>>, sitemap_urls |-> <<>>, has_search_form |-> FALSE,
     search_params |-> <<>>, requires_js |-> FALSE, robots_txt |-> None,
     meta_info |-> <<>>]

discover_website_structure(analysis_result) ==
    LET info == Update(website_info_defaults, analysis_result)
        best == get_best_strategy(info)
    IN  IF best = NoStrategy
        THEN Update(info, [search_strategy |-> "unknown"])
        ELSE IF HasName(best)
        THEN Update(info, [search_strategy |-> name(best)])
        ELSE Update(info, [error |-> "error"])

Pages == [search_forms : 0..MaxForms, js : BOOLEAN]

RobotsRefs == {<<>>} \cup {[n \in 1..m |-> "http://site/robots-sitemap.xml"] : m \in 1..MaxRobotsSitemaps}

Robots == [status_code : {200, 404}, refs : RobotsRefs]

HeadAnswers ==
    {paths \in SUBSET {SitemapPaths[n] : n \in 1..Len(SitemapPaths)} :
        Cardinality(paths) <= MaxSitemapHits}

\* The places where the analysis is made to fail: the homepage fetch, the
\* robots.txt probe, the forms inventory, or nowhere.
FailPoints == {0, 3, 6, NumProbes + 1}

\* HTTPClient.__init__: the backend a client built with the given use_pycurl
\* argument hands its requests to first.
Backend(use_pycurl_argument) ==
    IF use_pycurl_argument /\ PYCURL_AVAILABLE THEN "pycurl" ELSE "requests"

\* The requests a component of the engine sends in one step, by the backend
\* its client hands them to.
Requests(component, use_pycurl_argument) ==
    [component |-> component, backend |-> Backend(use_pycurl_argument)]

DiscoverFrom(fails, pages, heads, robotsAnswers) ==
    /\ pc = "start"
    /\ \E failAt \in fails, page \in pages, head200 \in heads, robots \in robotsAnswers :
          website_info' = discover_website_structure(
                              analyze_website(failAt, page, head200, robots))
    /\ pc' = "discovered"
    /\ network' = TRUE
    /\ http_log' = Append(http_log, Requests("analyzer", ~argv.no_pycurl))
    /\ UNCHANGED <<PLAYWRIGHT_AVAILABLE, search_terms, results, results_error,
                   strategy, i, outcomes, producer, trace, result, score,
                   main_vars, client_vars, pure_vars>>

\* discover_website_structure on any site
Discover == DiscoverFrom(FailPoints, Pages, HeadAnswers, Robots)

\* discover_website_structure on a site whose homepage has one search form,
\* that answers no sitemap probe and has no robots.txt
DiscoverFormSite ==
    DiscoverFrom({NumProbes + 1}, {[search_forms |-> 1, js |-> FALSE]}, {{}},
                 {[status_code |-> 404, refs |-> <<>>]})

(***************************************************************************)
(* DataExtractor                                                           *)
(***************************************************************************)
\* A URL as urlparse sees it.
Url(scheme, netloc, path) == [scheme |-> scheme, netloc |-> netloc, path |-> path]

EmptyUrl == Url("", "", "")

RECURSIVE CollapseWhitespace(_)
CollapseWhitespace(t) ==
    IF t = <<>> THEN <<>>
    ELSE IF Head(t) \in Whitespace THEN <<" ">> \o CollapseWhitespace(lstrip(t))
    ELSE <<Head(t)>> \o CollapseWhitespace(Tail(t))

Entity(tok) ==
    CASE tok = "&amp;" -> "&"
      [] tok = "&lt;" -> "<"
      [] tok = "&gt;" -> ">"
      [] tok = "&quot;" -> "\""
      [] tok = "&#39;" -> "'"
      [] OTHER -> tok

_clean_text(text) ==
    LET collapsed == CollapseWhitespace(text)
    IN  strip([n \in 1..Len(collapsed) |-> Entity(collapsed[n])])

\* urlparse raises ValueError on a bracketed host that is not closed.
urlparse_raises(url) == url.netloc = "[::1"

_validate_url_DropScheme(url) ==
    IF url = EmptyUrl THEN EmptyUrl
    ELSE IF urlparse_raises(url) THEN EmptyUrl
    ELSE IF url.scheme # "" /\ url.netloc # "" THEN Url("", url.netloc, url.path)
    ELSE EmptyUrl

_validate_url(url) ==
    IF url = EmptyUrl THEN EmptyUrl
    ELSE IF urlparse_raises(url) THEN EmptyUrl
    ELSE IF url.scheme # "" /\ url.netloc # "" THEN url
    ELSE EmptyUrl

_calculate_quality_score_Tiers(r) ==
    LET content_length == Get(r, "page_content_length", 0)
        s1 == IF Get(r, "url", EmptyUrl) # EmptyUrl THEN 20 ELSE 0
        s2 == IF Get(r, "title", <<>>) # <<>> \/ Get(r, "page_title", <<>>) # <<>>
              THEN 20 ELSE 0
        s3 == IF Get(r, "description", <<>>) # <<>> \/ Get(r, "page_description", <<>>) # <<>>
              THEN 15 ELSE 0
        s4 == IF content_length > 1000 THEN 10
              ELSE IF content_length > 500 THEN 15
              ELSE IF content_length > 100 THEN 5
              ELSE 0
        s5 == IF Get(r, "page_images", <<>>) # <<>> THEN 10 ELSE 0
        s6 == IF Get(r, "page_links", <<>>) # <<>> THEN 10 ELSE 0
        s7 == IF ~Truthy(Get(r, "error", None)) /\ ~Truthy(Get(r, "metadata_error", None))
                 /\ ~Truthy(Get(r, "fetch_error", None))
              THEN 10 ELSE 0
        total == s1 + s2 + s3 + s4 + s5 + s6 + s7
    IN  IF total < 100 THEN total ELSE 100

_calculate_quality_score_AtLeast(r) ==
    LET content_length == Get(r, "page_content_length", 0)
        s1 == IF Get(r, "url", EmptyUrl) # EmptyUrl THEN 20 ELSE 0
        s2 == IF Get(r, "title", <<>>) # <<>> \/ Get(r, "page_title", <<>>) # <<>>
              THEN 20 ELSE 0
        s3 == IF Get(r, "description", <<>>) # <<>> \/ Get(r, "page_description", <<>>) # <<>>
              THEN 15 ELSE 0
        s4 == IF content_length >= 1000 THEN 15
              ELSE IF content_length > 500 THEN 10
              ELSE IF content_length > 100 THEN 5
              ELSE 0
        s5 == IF Get(r, "page_images", <<>>) # <<>> THEN 10 ELSE 0
        s6 == IF Get(r, "page_links", <<>>) # <<>> THEN 10 ELSE 0
        s7 == IF ~Truthy(Get(r, "error", None)) /\ ~Truthy(Get(r, "metadata_error", None))
                 /\ ~Truthy(Get(r, "fetch_error", None))
              THEN 10 ELSE 0
        total == s1 + s2 + s3 + s4 + s5 + s6 + s7
    IN  IF total < 100 THEN total ELSE 100

_calculate_quality_score(r) ==
    LET content_length == Get(r, "page_content_length", 0)
        s1 == IF Get(r, "url", EmptyUrl) # EmptyUrl THEN 20 ELSE 0
        s2 == IF Get(r, "title", <<>>) # <<>> \/ Get(r, "page_title", <<>>) # <<>>
              THEN 20 ELSE 0
        s3 == IF Get(r, "description", <<>>) # <<>> \/ Get(r, "page_description", <<>>) # <<>>
              THEN 15 ELSE 0
        s4 == IF content_length > 1000 THEN 15
              ELSE IF content_length > 500 THEN 10
              ELSE IF content_length > 100 THEN 5
              ELSE 0
        s5 == IF Get(r, "page_images", <<>>) # <<>> THEN 10 ELSE 0
        s6 == IF Get(r, "page_links", <<>>) # <<>> THEN 10 ELSE 0
        s7 == IF ~Truthy(Get(r, "error", None)) /\ ~Truthy(Get(r, "metadata_error", None))
                 /\ ~Truthy(Get(r, "fetch_error", None))
              THEN 10 ELSE 0
        total == s1 + s2 + s3 + s4 + s5 + s6 + s7
    IN  IF total < 100 THEN total ELSE 100

TextFields == {"title", "description", "page_title", "page_description"}

_clean_result_data(r) ==
    LET text_cleaned == [k \in DOMAIN r |-> IF k \in TextFields THEN _clean_text(r[k]) ELSE r[k]]
        cleaned == [k \in DOMAIN r |->
                      IF k = "url" THEN _validate_url(text_cleaned[k]) ELSE text_cleaned[k]]
    IN  Update(cleaned, [data_quality_score |-> _calculate_quality_score(cleaned)])

metadata_defaults ==
    [page_title |-> <<>>, page_description |-> <<>>, page_keywords |-> <<>>,
     page_content_length |-> 0, page_images |-> <<>>, page_links |-> <<>>,
     page_language |-> <<>>, page_author |-> <<>>, page_published_date |-> <<>>,
     page_modified_date |-> <<>>]

\* The result page every successful metadata fetch of the model returns.
ResultPage ==
    [page_title |-> <<" ", "Page", " ", " ", "title", "\n">>,
     page_description |-> <<"A", "&amp;", "B">>,
     page_content_length |-> 1200,
     page_images |-> <<"img1", "img2">>,
     page_links |-> <<"link1", "link2", "link3">>]

EnrichOutcomes == {"ok", "fetch_error", "metadata_error", "raises"}

_fetch_page_metadata_NoRecord(outcome) ==
    IF outcome = "fetch_error" THEN metadata_defaults
    ELSE Update(metadata_defaults, ResultPage)

\* outcome "fetch_error": the GET raises requests.RequestException, caught
\* inside; "metadata_error": it raises anything else, which propagates to
\* _enrich_result.
_fetch_page_metadata(outcome) ==
    IF outcome = "fetch_error" THEN Update(metadata_defaults, [fetch_error |-> "error"])
    ELSE Update(metadata_defaults, ResultPage)

_enrich_result(raw, search_term, outcome) ==
    LET enriched == Update(raw, [search_term_id |-> Get(search_term, "id", NoneV),
                                 search_term_data |-> search_term,
                                 extraction_timestamp |-> "now"])
        fetched == IF Get(enriched, "url", EmptyUrl) # EmptyUrl
                   THEN IF outcome = "metadata_error"
                        THEN Update(enriched, [metadata_error |-> "error"])
                        ELSE Update(enriched, _fetch_page_metadata(outcome))
                   ELSE enriched
    IN  _clean_result_data(fetched)

extract_data_DropFailed(search_results, search_term, enrich) ==
    LET kept == SelectSeq([k \in 1..Len(search_results) |-> k], LAMBDA k : enrich[k] # "raises")
    IN  [j \in 1..Len(kept) |-> _enrich_result(search_results[kept[j]], search_term, enrich[kept[j]])]

extract_data_AbortBatch(search_results, search_term, enrich) ==
    LET raising == {k \in 1..Len(search_results) : enrich[k] = "raises"}
        last == IF raising = {} THEN Len(search_results)
                ELSE CHOOSE k \in raising : \A j \in raising : k <= j
    IN  [k \in 1..last |->
            IF enrich[k] = "raises"
            THEN Update(search_results[k], [error |-> "error"])
            ELSE _enrich_result(search_results[k], search_term, enrich[k])]

\* enrich[k] is what happens while result k is enriched; "raises" is an
\* exception leaving _enrich_result.
extract_data(search_results, search_term, enrich) ==
    [k \in 1..Len(search_results) |->
        IF enrich[k] = "raises"
        THEN Update(search_results[k], [error |-> "error"])
        ELSE _enrich_result(search_results[k], search_term, enrich[k])]

(***************************************************************************)
(* ScraperEngine.scrape_data                                               *)
(***************************************************************************)
SearchableFields == <<"Artist", "Title", "query", "search", "term">>

\* The order in which a search term's keys were inserted.
KeyOrder == <<"id", "Artist", "Title", "query", "search", "term", "name">>

\* TRUE when validate_search_terms returns, FALSE when it raises ValueError.
validate_search_terms(terms) ==
    /\ isinstance_list(terms)
    /\ terms.val # <<>>
    /\ \A n \in 1..Len(terms.val) :
          /\ isinstance_dict(terms.val[n])
          /\ "id" \in DOMAIN terms.val[n].val
          /\ \E f \in 1..Len(SearchableFields) :
                /\ SearchableFields[f] \in DOMAIN terms.val[n].val
                /\ isinstance_str(terms.val[n].val[SearchableFields[f]])
                /\ strip(terms.val[n].val[SearchableFields[f]].val) # <<>>

\* json.loads of a list of objects
Loaded(terms) == ListV([n \in 1..Len(terms) |-> DictV(terms[n])])

RECURSIVE StringValues(_, _)
StringValues(keys, search_term) ==
    IF keys = <<>> THEN <<>>
    ELSE (IF Head(keys) \in DOMAIN search_term /\ Head(keys) # "id"
             /\ isinstance_str(search_term[Head(keys)])
          THEN <<search_term[Head(keys)]>> ELSE <<>>)
         \o StringValues(Tail(keys), search_term)

\* ' '.join raises TypeError when a part is not a string.
_create_search_query(search_term) ==
    LET named == (IF "Artist" \in DOMAIN search_term THEN <<search_term["Artist"]>> ELSE <<>>)
                 \o (IF "Title" \in DOMAIN search_term THEN <<search_term["Title"]>> ELSE <<>>)
        query_parts == IF named = <<>> THEN StringValues(KeyOrder, search_term) ELSE named
    IN  IF \E n \in 1..Len(query_parts) : ~isinstance_str(query_parts[n])
        THEN [raises |-> TRUE, query |-> <<>>]
        ELSE [raises |-> FALSE,
              query |-> strip(join(<<" ">>, [n \in 1..Len(query_parts) |-> query_parts[n].val]))]

\* The k-th raw result a strategy returns for a query.
RawResult(k, query) ==
    [url |-> Url("http", "site", "/r" \o ToString(k)),
     title |-> <<"Result">> \o [n \in 1..k |-> " "] \o <<ToString(k)>>,
     description |-> <<>>,
     query |-> query,
     source_url |-> BaseUrl]

Event(ev, n) == [ev |-> ev, term |-> n, strategy |-> strategy]

ScrapeBegin_NoReturn ==
    /\ pc = "discovered"
    /\ strategy' = get_strategy(Get(website_info, "search_strategy", "unknown"))
    /\ results_error' = IF strategy' = NoStrategy
                        THEN "No suitable search strategy found" ELSE ""
    /\ pc' = "loop"
    /\ UNCHANGED <<PLAYWRIGHT_AVAILABLE, search_terms, website_info, results,
                   i, outcomes, producer, trace, result, score,
                   main_vars, network, http_vars, pure_vars>>

ScrapeBegin_StoresStrategy ==
    /\ pc = "discovered"
    /\ strategy' = get_strategy(Get(website_info, "search_strategy", "unknown"))
    /\ website_info' = Update(website_info, [search_strategy |-> strategy'])
    /\ IF strategy' = NoStrategy
       THEN /\ results_error' = "No suitable search strategy found"
            /\ pc' = "done"
       ELSE /\ results_error' = ""
            /\ pc' = IF search_terms = <<>> THEN "done" ELSE "loop"
    /\ UNCHANGED <<PLAYWRIGHT_AVAILABLE, search_terms, results,
                   i, outcomes, producer, trace, result, score,
                   main_vars, network, http_vars, pure_vars>>

\* scrape_data up to the per-term loop
ScrapeBegin ==
    /\ pc = "discovered"
    /\ strategy' = get_strategy(Get(website_info, "search_strategy", "unknown"))
    /\ IF strategy' = NoStrategy
       THEN /\ results_error' = "No suitable search strategy found"
            /\ pc' = "done"
       ELSE /\ results_error' = ""
            /\ pc' = IF search_terms = <<>> THEN "done" ELSE "loop"
    /\ UNCHANGED <<PLAYWRIGHT_AVAILABLE, search_terms, website_info, results,
                   i, outcomes, producer, trace, result, score,
                   main_vars, network, http_vars, pure_vars>>

TermError_NoId(search_term) ==
    [search_term |-> search_term, error |-> "error", results_count |-> 0]

TermError(search_term) ==
    [search_term_id |-> Get(search_term, "id", NoneV), search_term |-> search_term,
     error |-> "error", results_count |-> 0]

Repeat(n, count) == [k \in 1..count |-> n]

\* What may happen to the m results of one term: each enrichment ends in one
\* of the given outcomes, and at most MaxFaults of them go wrong.
EnrichChoices(m, enrichOutcomes) ==
    {enrich \in [1..m -> enrichOutcomes] :
        Cardinality({k \in 1..m : enrich[k] # "ok"}) <= MaxFaults}

\* The use_pycurl argument get_strategy builds its strategies with.
StrategyUsePycurl == TRUE

\* One iteration of the per-term loop of scrape_data, for a search that
\* raises or returns one of the given numbers of raw results.
ProcessTermFrom(rawCounts, enrichOutcomes) ==
    /\ pc = "loop"
    /\ i < Len(search_terms)
    /\ LET n == i + 1
           search_term == search_terms[n]
           q == _create_search_query(search_term)
       IN  \/ /\ q.raises
              /\ results' = Append(results, TermError(search_term))
              /\ producer' = Append(producer, n)
              /\ outcomes' = Append(outcomes, [failed |-> TRUE, raw_count |-> 0,
                                               search_results |-> <<>>, enrich |-> <<>>])
              /\ UNCHANGED <<trace, http_log>>
           \/ /\ ~q.raises
              /\ results' = Append(results, TermError(search_term))
              /\ producer' = Append(producer, n)
              /\ outcomes' = Append(outcomes, [failed |-> TRUE, raw_count |-> 0,
                                               search_results |-> <<>>, enrich |-> <<>>])
              /\ trace' = Append(trace, Event("search", n))
              /\ http_log' = Append(http_log, Requests("strategy", StrategyUsePycurl))
           \/ /\ ~q.raises
              /\ \E m \in rawCounts : \E enrich \in EnrichChoices(m, enrichOutcomes) :
                    LET search_results == [k \in 1..m |-> RawResult(k, q.query)]
                        extracted_data == extract_data(search_results, search_term, enrich)
                    IN  /\ results' = results \o extracted_data
                        /\ producer' = producer \o Repeat(n, Len(extracted_data))
                        /\ outcomes' = Append(outcomes, [failed |-> FALSE, raw_count |-> m,
                                                          search_results |-> search_results,
                                                          enrich |-> enrich])
                        /\ trace' = trace \o <<Event("search", n), Event("extract", n)>>
                                    \o (IF n < Len(search_terms)
                                        THEN <<Event("sleep", n)>> ELSE <<>>)
                        /\ http_log' = http_log
                                       \o <<Requests("strategy", StrategyUsePycurl)>>
                                       \o (IF m > 0
                                           THEN <<Requests("extractor", ~argv.no_pycurl)>>
                                           ELSE <<>>)
    /\ i' = i + 1
    /\ pc' = IF i + 1 = Len(search_terms) THEN "done" ELSE "loop"
    /\ UNCHANGED <<PLAYWRIGHT_AVAILABLE, search_terms, website_info, results_error,
                   strategy, result, score, main_vars, network, client_vars, pure_vars>>

\* an iteration with any search and enrichment outcome
ProcessTerm == ProcessTermFrom(0..MaxRaw, EnrichOutcomes)

\* an iteration whose search returns at most one result, enriched without fault
ProcessTermPlain == ProcessTermFrom({0, 1}, {"ok"})

(***************************************************************************)
(* The run of main(): validated input, discovery, scrape.                  *)
(***************************************************************************)
TermShape(shape, n) ==
    IF shape = "artist_title"
    THEN [id |-> IntV(100 + n), Artist |-> StrV(<<"a">>), Title |-> StrV(<<"t">>)]
    ELSE [id |-> IntV(100 + n), Artist |-> IntV(7), query |-> StrV(<<"q">>)]

TermLists ==
    UNION {{[n \in 1..len |-> TermShape(shapes[n], n)] :
               shapes \in [1..len -> {"artist_title", "artist_not_str"}]} : len \in 1..MaxTerms}

NoResult == [url |-> EmptyUrl]

SiteUrl == Url("http", "site", "")

\* Nothing was scored, no function is under check.
NoCalls == result = NoResult /\ score = 0 /\ arg = None /\ ret = None

NoResponse == [call |-> 0, outcome |-> None, backend |-> None]

\* A client on which no call was made yet.
HttpIdle ==
    /\ PYCURL_AVAILABLE = TRUE
    /\ use_pycurl = TRUE
    /\ http_log = <<>>
    /\ response = NoResponse

\* The state in which main() has validated its input and constructed the
\* engine, for the given values of --no-pycurl and of PYCURL_AVAILABLE.
InitFrom(flags, availability) ==
    /\ pc = "start"
    /\ PLAYWRIGHT_AVAILABLE \in BOOLEAN
    /\ search_terms \in {terms \in TermLists : validate_search_terms(Loaded(terms))}
    /\ \E no_pycurl \in flags :
          argv = [url |-> SiteUrl, search_terms |-> Loaded(search_terms),
                  no_pycurl |-> no_pycurl]
    /\ exit_code = None
    /\ engine = TRUE
    /\ network = FALSE
    /\ output_written = FALSE
    /\ PYCURL_AVAILABLE \in availability
    /\ use_pycurl = TRUE
    /\ http_log = <<>>
    /\ response = NoResponse
    /\ website_info = website_info_defaults
    /\ results = <<>>
    /\ results_error = ""
    /\ strategy = NoStrategy
    /\ i = 0
    /\ outcomes = <<>>
    /\ producer = <<>>
    /\ trace = <<>>
    /\ NoCalls

\* The run with pycurl installed and not disabled.
Init == InitFrom({FALSE}, {TRUE})

\* The whole run on any site.
Next == Discover \/ ScrapeBegin \/ ProcessTermPlain

Spec == Init /\ [][Next]_vars

\* The whole run on any site, with or without --no-pycurl, with pycurl
\* installed or not.
InitBackend == InitFrom(BOOLEAN, BOOLEAN)

SpecBackend == InitBackend /\ [][Next]_vars

\* The scrape in full on a site with a search form.
NextScrape == DiscoverFormSite \/ ScrapeBegin \/ ProcessTerm

SpecScrape == Init /\ [][NextScrape]_vars

(***************************************************************************)
(* main() from its command line on: validation, engine construction, the   *)
(* run on a site with a search form, and the output file.                  *)
(***************************************************************************)
validate_url_AnyScheme(url) ==
    IF url = EmptyUrl THEN FALSE
    ELSE IF urlparse_raises(url) THEN FALSE
    ELSE IF url.scheme = "" \/ url.netloc = "" THEN FALSE
    ELSE TRUE

\* TRUE when validate_url returns, FALSE when it raises ValueError.
validate_url(url) ==
    IF url = EmptyUrl THEN FALSE
    ELSE IF urlparse_raises(url) THEN FALSE
    ELSE IF url.scheme = "" \/ url.netloc = "" THEN FALSE
    ELSE IF url.scheme \notin {"http", "https"} THEN FALSE
    ELSE TRUE

\* A --search-terms argument that names no file, or holds no JSON document.
Unloadable == [type |-> "unloadable", val |-> <<>>]

\* The argument is modelled by the document it holds.
load_search_terms(search_terms_input) ==
    IF search_terms_input = Unloadable
    THEN [raises |-> TRUE, value |-> ListV(<<>>)]
    ELSE [raises |-> FALSE, value |-> search_terms_input]

\* The n-th item of a search-terms document.
ItemShape(shape, n) ==
    CASE shape = "not_dict" -> StrV(<<"x">>)
      [] shape = "no_id" -> DictV([Artist |-> StrV(<<"a">>)])
      [] shape = "no_searchable" -> DictV([id |-> IntV(100 + n), name |-> StrV(<<"n">>)])
      [] shape = "blank" -> DictV([id |-> IntV(100 + n), Title |-> StrV(<<>>)])
      [] shape = "whitespace" -> DictV([id |-> IntV(100 + n), Title |-> StrV(<<" ">>)])
      [] shape = "not_str" -> DictV([id |-> IntV(100 + n), query |-> IntV(3)])
      [] OTHER -> DictV(TermShape(shape, n))

ItemShapes ==
    {"not_dict", "no_id", "no_searchable", "blank", "whitespace", "not_str",
     "artist_title", "artist_not_str"}

SearchTermsInputs ==
    {Unloadable, DictV([id |-> IntV(101), query |-> StrV(<<"q">>)])}
    \cup UNION {{ListV([n \in 1..len |-> ItemShape(shapes[n], n)]) :
                    shapes \in [1..len -> ItemShapes]} : len \in 0..MaxTerms}

UrlArguments ==
    {EmptyUrl, SiteUrl, Url("https", "site", ""), Url("ftp", "site", ""),
     Url("", "site", ""), Url("http", "", "/r1"), Url("http", "[::1", "")}

InitMain ==
    /\ pc = "main"
    /\ argv \in [url : UrlArguments, search_terms : SearchTermsInputs, no_pycurl : {FALSE}]
    /\ PLAYWRIGHT_AVAILABLE = FALSE
    /\ search_terms = <<>>
    /\ website_info = website_info_defaults
    /\ results = <<>>
    /\ results_error = ""
    /\ strategy = NoStrategy
    /\ i = 0
    /\ outcomes = <<>>
    /\ producer = <<>>
    /\ trace = <<>>
    /\ exit_code = None
    /\ engine = FALSE
    /\ network = FALSE
    /\ output_written = FALSE
    /\ HttpIdle
    /\ NoCalls

\* main() from validate_url to the construction of ScraperEngine; a
\* ValueError ends in the except clause, which exits with status 1.
MainValidate ==
    /\ pc = "main"
    /\ LET loaded == load_search_terms(argv.search_terms)
       IN  IF ~validate_url(argv.url) \/ loaded.raises \/ ~validate_search_terms(loaded.value)
           THEN /\ pc' = "exit"
                /\ exit_code' = 1
                /\ UNCHANGED <<search_terms, engine>>
           ELSE /\ search_terms' = [n \in 1..Len(loaded.value.val) |-> loaded.value.val[n].val]
                /\ engine' = TRUE
                /\ pc' = "start"
                /\ UNCHANGED exit_code
    /\ UNCHANGED <<PLAYWRIGHT_AVAILABLE, website_info, results, results_error, strategy,
                   i, outcomes, producer, trace, result, score, argv, output_written,
                   network, http_vars, pure_vars>>

\* main() after scrape_data: the output file is written and main returns, or
\* open/write raises and the except clause exits with status 1.
SaveResults ==
    /\ pc = "done"
    /\ \/ output_written' = TRUE /\ exit_code' = 0
       \/ output_written' = FALSE /\ exit_code' = 1
    /\ pc' = "exit"
    /\ UNCHANGED <<PLAYWRIGHT_AVAILABLE, search_terms, website_info, results,
                   results_error, strategy, i, outcomes, producer, trace, result, score,
                   argv, engine, network, http_vars, pure_vars>>

NextMain == MainValidate \/ DiscoverFormSite \/ ScrapeBegin \/ ProcessTermPlain \/ SaveResults

SpecMain == InitMain /\ [][NextMain]_vars

(***************************************************************************)
(* _calculate_quality_score applied to arbitrary result mappings.          *)
(***************************************************************************)
ContentLengths == {0, 100, 101, 500, 501, 1000, 1001, 1200}

Texts == {<<>>, <<"text">>}

Errors == {None, "error"}

ScoreInputs ==
    [url : {EmptyUrl, Url("http", "site", "/r1")},
     title : Texts, page_title : Texts,
     description : Texts, page_description : Texts,
     page_content_length : ContentLengths,
     page_images : {[k \in 1..n |-> "img"] : n \in 0..MaxImages},
     page_links : {[k \in 1..n |-> "link"] : n \in 0..MaxLinks},
     error : Errors, metadata_error : Errors, fetch_error : Errors]

\* No run of main(): nothing read, no engine, nothing scraped.
NoRun ==
    /\ PLAYWRIGHT_AVAILABLE = FALSE
    /\ search_terms = <<>>
    /\ website_info = website_info_defaults
    /\ results = <<>>
    /\ results_error = ""
    /\ strategy = NoStrategy
    /\ i = 0
    /\ outcomes = <<>>
    /\ producer = <<>>
    /\ trace = <<>>
    /\ argv = None
    /\ exit_code = None
    /\ engine = FALSE
    /\ network = FALSE
    /\ output_written = FALSE

InitScore ==
    /\ pc = "score_input"
    /\ result \in ScoreInputs
    /\ score = 0
    /\ arg = None
    /\ ret = None
    /\ NoRun
    /\ HttpIdle

CalculateScore ==
    /\ pc = "score_input"
    /\ score' = _calculate_quality_score(result)
    /\ pc' = "score_done"
    /\ UNCHANGED <<PLAYWRIGHT_AVAILABLE, search_terms, website_info, results,
                   results_error, strategy, i, outcomes, producer, trace, result,
                   main_vars, network, http_vars, pure_vars>>

NextScore == CalculateScore

SpecScore == InitScore /\ [][NextScore]_vars

(***************************************************************************)
(* _validate_url applied to arbitrary URLs, and again to what it returned.  *)
(***************************************************************************)
MaxValidations == 2

UrlInputs ==
    {Url(scheme, netloc, path) : scheme \in {"", "http", "https", "ftp"},
                                 netloc \in {"", "site", "[::1"},
                                 path \in {"", "/", "/r1", "/r1?q=a b"}}

InitUrl ==
    /\ pc = "url_input"
    /\ arg \in UrlInputs
    /\ ret = <<>>
    /\ result = NoResult
    /\ score = 0
    /\ NoRun
    /\ HttpIdle

\* ret[k] is the URL after k validations
ValidateUrl ==
    /\ pc = "url_input"
    /\ Len(ret) < MaxValidations
    /\ ret' = Append(ret, _validate_url(IF ret = <<>> THEN arg ELSE ret[Len(ret)]))
    /\ UNCHANGED <<pc, PLAYWRIGHT_AVAILABLE, search_terms, website_info, results,
                   results_error, strategy, i, outcomes, producer, trace, result, score,
                   main_vars, network, http_vars, arg>>

NextUrl == ValidateUrl

SpecUrl == InitUrl /\ [][NextUrl]_vars

(***************************************************************************)
(* FormSearchStrategy._extract_results_from_page applied to the candidate   *)
(* elements of one results page.                                            *)
(***************************************************************************)
MaxElements == 3

NoHref == Url("<no link>", "", "")

\* urljoin for an href that is absolute, or a path from the root, or a fragment
urljoin(base_url, href) ==
    IF href.scheme # "" THEN href
    ELSE IF href.path = "#top" THEN Url(base_url.scheme, base_url.netloc, base_url.path \o href.path)
    ELSE Url(base_url.scheme, base_url.netloc, href.path)

\* The URLs that contain one of skip_patterns.
ContainsSkipPattern(url) ==
    \/ url.path \in {"/login", "/search#top"}
    \/ url.netloc \in {"facebook.com"}

\* A candidate element, reduced to what _extract_result_data reads from it:
\* the href of the element or of its first link (NoHref without one), and the
\* texts its title and description strategies end with, as sequences of
\* characters. An Optional is a sequence of at most one value.
_extract_result_data(element, base_url, query) ==
    IF element.href = NoHref THEN <<>>
    ELSE LET result_data == [url |-> urljoin(base_url, element.href),
                             title |-> element.title,
                             description |-> element.description,
                             query |-> query,
                             source_url |-> base_url]
         IN  IF result_data.url # EmptyUrl THEN <<result_data>> ELSE <<>>

_is_valid_result(result_data) ==
    LET url == Get(result_data, "url", EmptyUrl)
        title == Get(result_data, "title", <<>>)
    IN  IF url = EmptyUrl THEN FALSE
        ELSE IF ContainsSkipPattern(url) THEN FALSE
        ELSE IF title = <<>> /\ Get(result_data, "description", <<>>) = <<>> THEN FALSE
        ELSE IF title # <<>> /\ Len(strip(title)) < 3 THEN FALSE
        ELSE TRUE

\* the loop over result_elements
RECURSIVE ExtractValid(_, _, _)
ExtractValid(result_elements, url, query) ==
    IF result_elements = <<>> THEN <<>>
    ELSE LET result_data == _extract_result_data(Head(result_elements), url, query)
         IN  (IF result_data # <<>> /\ _is_valid_result(result_data[1])
              THEN result_data ELSE <<>>)
             \o ExtractValid(Tail(result_elements), url, query)

\* the loop over results that fills unique_results
RECURSIVE unique_results(_, _)
unique_results(rs, seen_urls) ==
    IF rs = <<>> THEN <<>>
    ELSE IF Head(rs).url \notin seen_urls
         THEN <<Head(rs)>> \o unique_results(Tail(rs), seen_urls \cup {Head(rs).url})
         ELSE unique_results(Tail(rs), seen_urls)

Reverse(seq) == [k \in 1..Len(seq) |-> seq[Len(seq) + 1 - k]]

_extract_results_from_page_KeepLast(result_elements, url, query) ==
    Reverse(unique_results(Reverse(ExtractValid(result_elements, url, query)), {}))

_extract_results_from_page(result_elements, url, query) ==
    unique_results(ExtractValid(result_elements, url, query), {})

SearchPageUrl == Url("http", "site", "/search")

Elements ==
    {[href |-> Url("", "", "/r1"), title |-> <<"A", "b", "c">>, description |-> <<>>],
     [href |-> Url("http", "site", "/r1"), title |-> <<"X", "y", "z">>, description |-> <<"d">>],
     [href |-> Url("", "", "/r2"), title |-> <<"A", "b", "c">>, description |-> <<>>],
     [href |-> Url("", "", "/r2"), title |-> <<>>, description |-> <<"d">>],
     [href |-> Url("", "", "/r2"), title |-> <<"A", "b">>, description |-> <<>>],
     [href |-> NoHref, title |-> <<"A", "b", "c">>, description |-> <<>>],
     [href |-> Url("", "", "/login"), title |-> <<"A", "b", "c">>, description |-> <<>>],
     [href |-> Url("", "", "#top"), title |-> <<"A", "b", "c">>, description |-> <<>>],
     [href |-> Url("", "", "/r3"), title |-> <<>>, description |-> <<>>]}

ElementLists == UNION {[1..len -> Elements] : len \in 0..MaxElements}

InitPage ==
    /\ pc = "page_input"
    /\ arg \in ElementLists
    /\ ret = <<>>
    /\ result = NoResult
    /\ score = 0
    /\ NoRun
    /\ HttpIdle

ExtractResults ==
    /\ pc = "page_input"
    /\ ret' = _extract_results_from_page(arg, SearchPageUrl, <<"q">>)
    /\ pc' = "page_done"
    /\ UNCHANGED <<PLAYWRIGHT_AVAILABLE, search_terms, website_info, results,
                   results_error, strategy, i, outcomes, producer, trace, result, score,
                   main_vars, network, http_vars, arg>>

NextPage == ExtractResults

SpecPage == InitPage /\ [][NextPage]_vars

(***************************************************************************)
(* _create_search_query applied to arbitrary validated search terms.        *)
(***************************************************************************)
Absent == [type |-> "absent", val |-> <<>>]

\* The mapping with the given values, without the keys whose value is Absent.
Term(id, Artist, Title, query, name_) ==
    LET all == [id |-> id, Artist |-> Artist, Title |-> Title, query |-> query, name |-> name_]
    IN  [k \in {key \in DOMAIN all : all[key] # Absent} |-> all[k]]

QueryTerms ==
    {Term(IntV(1), Artist, Title, query, name_) :
        Artist \in {Absent, StrV(<<"Beyonce">>), StrV(<<>>), IntV(7), NoneV},
        Title \in {Absent, StrV(<<"Single", " ", "Ladies">>), StrV(<<>>)},
        query \in {Absent, StrV(<<"q">>)},
        name_ \in {Absent, StrV(<<"n">>), IntV(5)}}

InitQuery ==
    /\ pc = "query_input"
    /\ arg \in {search_term \in QueryTerms : validate_search_terms(Loaded(<<search_term>>))}
    /\ ret = None
    /\ result = NoResult
    /\ score = 0
    /\ NoRun
    /\ HttpIdle

CreateSearchQuery ==
    /\ pc = "query_input"
    /\ ret' = _create_search_query(arg)
    /\ pc' = "query_done"
    /\ UNCHANGED <<PLAYWRIGHT_AVAILABLE, search_terms, website_info, results,
                   results_error, strategy, i, outcomes, producer, trace, result, score,
                   main_vars, network, http_vars, arg>>

NextQuery == CreateSearchQuery

SpecQuery == InitQuery /\ [][NextQuery]_vars

(***************************************************************************)
(* analyze_website on any site, failing at any step or at none.             *)
(***************************************************************************)
AnalysisInputs ==
    [failAt : 0..(NumProbes + 1), page : Pages, head200 : HeadAnswers, robots : Robots]

InitAnalyze ==
    /\ pc = "analyze_input"
    /\ arg \in AnalysisInputs
    /\ ret = None
    /\ result = NoResult
    /\ score = 0
    /\ NoRun
    /\ HttpIdle

AnalyzeWebsite ==
    /\ pc = "analyze_input"
    /\ ret' = analyze_website(arg.failAt, arg.page, arg.head200, arg.robots)
    /\ pc' = "analyze_done"
    /\ UNCHANGED <<PLAYWRIGHT_AVAILABLE, search_terms, website_info, results,
                   results_error, strategy, i, outcomes, producer, trace, result, score,
                   main_vars, network, http_vars, arg>>

NextAnalyze == AnalyzeWebsite

SpecAnalyze == InitAnalyze /\ [][NextAnalyze]_vars

(***************************************************************************)
(* HTTPClient: a sequence of get, post and head calls on one client.        *)
(***************************************************************************)
MaxCalls == 2

\* One request handed to a backend: what it was given and how it ended.
Send(call, backend, method, data, headers, fails) ==
    [call |-> call, backend |-> backend, method |-> method, data |-> data,
     headers |-> headers, outcome |-> IF fails THEN "raises" ELSE "response"]

_pycurl_request_NoFallback(call, method, data, headers, perform_fails, requests_fails) ==
    <<Send(call, "pycurl", method, data, headers, perform_fails)>>

\* The requests of one _pycurl_request call: curl.perform(), and when it
\* raises pycurl.error, _get_requests(url).
_pycurl_request(call, method, data, headers, perform_fails, requests_fails) ==
    IF perform_fails
    THEN <<Send(call, "pycurl", method, data, headers, TRUE),
           Send(call, "requests", "GET", FALSE, FALSE, requests_fails)>>
    ELSE <<Send(call, "pycurl", method, data, headers, FALSE)>>

\* The requests of one _head_pycurl call: curl.perform(), and when it raises
\* pycurl.error, _head_requests(url).
_head_pycurl(call, headers, perform_fails, requests_fails) ==
    IF perform_fails
    THEN <<Send(call, "pycurl", "HEAD", FALSE, headers, TRUE),
           Send(call, "requests", "HEAD", FALSE, FALSE, requests_fails)>>
    ELSE <<Send(call, "pycurl", "HEAD", FALSE, headers, FALSE)>>

get(call, headers, perform_fails, requests_fails) ==
    IF use_pycurl THEN _pycurl_request(call, "GET", FALSE, headers, perform_fails, requests_fails)
    ELSE <<Send(call, "requests", "GET", FALSE, headers, requests_fails)>>

post(call, headers, perform_fails, requests_fails) ==
    IF use_pycurl THEN _pycurl_request(call, "POST", TRUE, headers, perform_fails, requests_fails)
    ELSE <<Send(call, "requests", "POST", TRUE, headers, requests_fails)>>

head(call, headers, perform_fails, requests_fails) ==
    IF use_pycurl THEN _head_pycurl(call, headers, perform_fails, requests_fails)
    ELSE <<Send(call, "requests", "HEAD", FALSE, headers, requests_fails)>>

\* use_pycurl and PYCURL_AVAILABLE, for any constructor argument
InitHttp ==
    /\ pc = "http"
    /\ PYCURL_AVAILABLE \in BOOLEAN
    /\ \E use_pycurl_argument \in BOOLEAN :
          use_pycurl = (use_pycurl_argument /\ PYCURL_AVAILABLE)
    /\ http_log = <<>>
    /\ response = NoResponse
    /\ NoRun
    /\ NoCalls

\* The caller gets what the last request of the call ended with.
Returned(sent) ==
    /\ pc = "http"
    /\ http_log' = http_log \o sent
    /\ response' = [call |-> response.call + 1, outcome |-> sent[Len(sent)].outcome,
                    backend |-> sent[Len(sent)].backend]
    /\ UNCHANGED <<pc, PLAYWRIGHT_AVAILABLE, search_terms, website_info, results,
                   results_error, strategy, i, outcomes, producer, trace, result, score,
                   main_vars, network, PYCURL_AVAILABLE, use_pycurl, pure_vars>>

HttpGet ==
    /\ response.call < MaxCalls
    /\ \E headers, perform_fails, requests_fails \in BOOLEAN :
          Returned(get(response.call + 1, headers, perform_fails, requests_fails))

HttpPost ==
    /\ response.call < MaxCalls
    /\ \E headers, perform_fails, requests_fails \in BOOLEAN :
          Returned(post(response.call + 1, headers, perform_fails, requests_fails))

HttpHead ==
    /\ response.call < MaxCalls
    /\ \E headers, perform_fails, requests_fails \in BOOLEAN :
          Returned(head(response.call + 1, headers, perform_fails, requests_fails))

NextHttp == HttpGet \/ HttpPost \/ HttpHead

SpecHttp == InitHttp /\ [][NextHttp]_vars

(***************************************************************************)
(* _extract_results_from_page of FormSearchStrategy and of                  *)
(* QueryParamSearchStrategy applied to one results page.                    *)
(*                                                                         *)
(* A page is the sequence of its top-level elements in document order. An   *)
(* element is an anchor or a div; a div has one class or none and at most   *)
(* one link inside, whose text is the div's title.                          *)
(***************************************************************************)
MaxPageElements == 3

\* Those of result_selectors that match a class of the model, in list order.
result_selectors == <<".result", "[class*=result]", ".card", "[class*=card]">>

\* soup.select(selector) finds the element
Selects(selector, element) ==
    /\ element.class # ""
    /\ selector \in {"." \o element.class, "[class*=" \o element.class \o "]"}

RECURSIVE SelectAll(_, _)
SelectAll(selectors, page) ==
    IF selectors = <<>> THEN <<>>
    ELSE SelectSeq(page, LAMBDA element : Selects(Head(selectors), element))
         \o SelectAll(Tail(selectors), page)

\* soup.find_all('a', href=True): the anchors of the page and the links
\* inside its divs, in document order.
RECURSIVE find_all_a(_)
find_all_a(page) ==
    IF page = <<>> THEN <<>>
    ELSE LET element == Head(page)
         IN  (IF element.href = NoHref THEN <<>>
              ELSE IF element.tag = "a" THEN <<element>>
              ELSE <<[tag |-> "a", class |-> "", href |-> element.href,
                      title |-> element.title, description |-> <<>>]>>)
             \o find_all_a(Tail(page))

\* The hrefs that contain '#', 'javascript:', 'mailto:', 'tel:' or a social site.
HrefSkipped(href) == href.path = "#top" \/ href.netloc = "facebook.com"

\* The hrefs that contain '/artist/', '/album/', ..., '/item/'.
HasContentIndicator(href) == href.path \in {"/item/1", "/item/2"}

LongText == <<"L", "a", "t", "e", "s", "t", " ", "s", "o", "n", "g">>

NavText == <<"A", "b", "o", "u", "t", " ", "t", "h", "e", " ", "s", "i", "t", "e">>

\* The texts that contain 'home', 'about', 'contact', 'login' or 'register'.
HasNavWord(text) == text = NavText

content_links(page) ==
    SelectSeq(find_all_a(page),
              LAMBDA link : /\ ~HrefSkipped(link.href)
                            /\ \/ HasContentIndicator(link.href)
                               \/ Len(strip(link.title)) > 10 /\ ~HasNavWord(link.title))

\* The candidate elements of FormSearchStrategy: the matches of every
\* selector, one selector after the other, or the content-rich links.
result_elements(page) ==
    IF SelectAll(result_selectors, page) # <<>> THEN SelectAll(result_selectors, page)
    ELSE content_links(page)

\* QueryParamSearchStrategy: the title is the text of a heading or of a link
\* inside the element, so a candidate that is itself a link has none.
QueryParam_extract_result_data(element, base_url, query) ==
    LET result_data == [url |-> IF element.href = NoHref THEN EmptyUrl
                                ELSE urljoin(base_url, element.href),
                        title |-> IF element.tag = "a" \/ element.href = NoHref THEN <<>>
                                  ELSE strip(element.title),
                        description |-> IF element.tag = "a" THEN <<>>
                                        ELSE strip(element.description),
                        query |-> query,
                        source_url |-> base_url]
    IN  IF result_data.url # EmptyUrl THEN <<result_data>> ELSE <<>>

\* QueryParamSearchStrategy: find_all(['div', 'article', 'li'], class_=...)
\* or all links; every element with a URL becomes a result.
QueryParam_extract_results_from_page(page, url, query) ==
    LET containers == SelectSeq(page, LAMBDA element :
                                  element.tag = "div" /\ element.class \in {"result"})
        elements == IF containers # <<>> THEN containers ELSE find_all_a(page)
        extracted == [n \in 1..Len(elements) |->
                         QueryParam_extract_result_data(elements[n], url, query)]
        found == SelectSeq(extracted, LAMBDA result_data : result_data # <<>>)
    IN  [n \in 1..Len(found) |-> found[n][1]]

PageElement(tag, class, href, title, description) ==
    [tag |-> tag, class |-> class, href |-> href, title |-> title, description |-> description]

PageElements ==
    {PageElement("div", "result", Url("", "", "/item/1"), <<"A", "b", "c">>, <<>>),
     PageElement("div", "card", Url("", "", "/item/2"), <<"X", "y", "z">>, <<"d">>),
     PageElement("div", "result", Url("", "", "/login"), <<"A", "b", "c">>, <<>>),
     PageElement("div", "result", Url("", "", "/item/2"), <<"A", "b">>, <<>>),
     PageElement("div", "result", NoHref, <<"A", "b", "c">>, <<>>),
     PageElement("div", "", Url("", "", "/item/2"), <<"X", "y", "z">>, <<>>),
     PageElement("a", "", Url("", "", "/item/1"), <<"A", "b", "c">>, <<>>),
     PageElement("a", "", Url("", "", "/r1"), LongText, <<>>),
     PageElement("a", "", Url("", "", "/r1"), NavText, <<>>),
     PageElement("a", "", Url("", "", "#top"), <<"A", "b", "c">>, <<>>)}

ResultPages == UNION {[1..len -> PageElements] : len \in 0..MaxPageElements}

InitSelect ==
    /\ pc = "select_input"
    /\ arg \in ResultPages
    /\ ret = None
    /\ result = NoResult
    /\ score = 0
    /\ NoRun
    /\ HttpIdle

FormExtract ==
    /\ pc = "select_input"
    /\ ret' = [strategy |-> "form", result_elements |-> result_elements(arg),
               results |-> _extract_results_from_page(result_elements(arg),
                                                      SearchPageUrl, <<"q">>)]
    /\ pc' = "select_done"
    /\ UNCHANGED <<PLAYWRIGHT_AVAILABLE, search_terms, website_info, results,
                   results_error, strategy, i, outcomes, producer, trace, result, score,
                   main_vars, network, http_vars, arg>>

QueryParamExtract ==
    /\ pc = "select_input"
    /\ ret' = [strategy |-> "query_param", result_elements |-> <<>>,
               results |-> QueryParam_extract_results_from_page(arg, SearchPageUrl, <<"q">>)]
    /\ pc' = "select_done"
    /\ UNCHANGED <<PLAYWRIGHT_AVAILABLE, search_terms, website_info, results,
                   results_error, strategy, i, outcomes, producer, trace, result, score,
                   main_vars, network, http_vars, arg>>

NextSelect == FormExtract \/ QueryParamExtract

SpecSelect == InitSelect /\ [][NextSelect]_vars

(***************************************************************************)
(* QueryParamSearchStrategy.search: the answer of the site to the GET with  *)
(* each parameter name is the input.                                        *)
(***************************************************************************)
search_params == <<"q", "query", "search", "s", "term", "keyword">>

\* The page the site answers to the GET with the n-th parameter name.
ResponsePage(n) ==
    <<PageElement("div", "result", Url("", "", "/item/1"),
                  <<"A", "b", "c", ToString(n)>>, <<>>)>>

\* http_client.get and raise_for_status raise a RequestException
Raises(answer) == answer \in {"request_error", "http_error"}

_is_search_results_page(answer) == answer = "results_page"

GetRequest(url, params) == [method |-> "GET", url |-> url, params |-> params]

RECURSIVE QueryParamLoop_NoBreak(_, _, _, _, _)
QueryParamLoop_NoBreak(n, base_url, query, answers, sofar) ==
    IF n > Len(search_params) THEN sofar
    ELSE LET params == search_params[n] :> query
             sent == Append(sofar.requests, GetRequest(base_url, params))
         IN  IF Raises(answers[n])
             THEN QueryParamLoop_NoBreak(n + 1, base_url, query, answers,
                                         [sofar EXCEPT !.requests = sent])
             ELSE IF _is_search_results_page(answers[n])
             THEN QueryParamLoop_NoBreak(n + 1, base_url, query, answers,
                      [requests |-> sent,
                       results |-> sofar.results
                           \o QueryParam_extract_results_from_page(ResponsePage(n),
                                                                   base_url, query)])
             ELSE QueryParamLoop_NoBreak(n + 1, base_url, query, answers,
                                         [sofar EXCEPT !.requests = sent])

\* The loop over search_params from the n-th name on.
RECURSIVE QueryParamLoop(_, _, _, _, _)
QueryParamLoop(n, base_url, query, answers, sofar) ==
    IF n > Len(search_params) THEN sofar
    ELSE LET params == search_params[n] :> query
             sent == Append(sofar.requests, GetRequest(base_url, params))
         IN  IF Raises(answers[n])
             THEN QueryParamLoop(n + 1, base_url, query, answers,
                                 [sofar EXCEPT !.requests = sent])
             ELSE IF _is_search_results_page(answers[n])
             THEN [requests |-> sent,
                   results |-> sofar.results
                       \o QueryParam_extract_results_from_page(ResponsePage(n),
                                                               base_url, query)]
             ELSE QueryParamLoop(n + 1, base_url, query, answers,
                                 [sofar EXCEPT !.requests = sent])

QueryParam_search(base_url, query, answers) ==
    QueryParamLoop(1, base_url, query, answers, [requests |-> <<>>, results |-> <<>>])

Answers == {"request_error", "http_error", "other_page", "results_page"}

InitParam ==
    /\ pc = "param_input"
    /\ arg \in [1..Len(search_params) -> Answers]
    /\ ret = None
    /\ result = NoResult
    /\ score = 0
    /\ NoRun
    /\ HttpIdle

QueryParamSearch ==
    /\ pc = "param_input"
    /\ ret' = QueryParam_search(SearchPageUrl, <<"q">>, arg)
    /\ pc' = "param_done"
    /\ UNCHANGED <<PLAYWRIGHT_AVAILABLE, search_terms, website_info, results,
                   results_error, strategy, i, outcomes, producer, trace, result, score,
                   main_vars, network, http_vars, arg>>

NextParam == QueryParamSearch

SpecParam == InitParam /\ [][NextParam]_vars

(***************************************************************************)
(* FormSearchStrategy.search: the discovered endpoints and parameters and   *)
(* the answer of the site to each GET are the input.                        *)
(***************************************************************************)
MaxEndpoints == 2

FindPageUrl == Url("http", "site", "/find")

\* The results page an endpoint serves for the query.
EndpointPage(endpoint) ==
    IF endpoint = SearchPageUrl
    THEN <<PageElement("div", "result", Url("", "", "/item/1"), <<"A", "b", "c">>, <<>>)>>
    ELSE IF endpoint = FindPageUrl
    THEN <<PageElement("div", "result", Url("", "", "/item/1"), <<"A", "b", "c">>, <<>>),
           PageElement("div", "card", Url("", "", "/item/2"), <<"X", "y", "z">>, <<"d">>)>>
    ELSE <<PageElement("div", "card", Url("", "", "/item/2"), <<"X", "y", "z">>, <<"d">>)>>

\* params: the query in place of every 'SEARCH_TERM'
FormParams(form_params, query) ==
    [param_name \in DOMAIN form_params |->
        IF form_params[param_name] = "SEARCH_TERM" THEN query ELSE form_params[param_name]]

RECURSIVE FormLoop_AbortOnError(_, _, _, _, _, _)
FormLoop_AbortOnError(n, endpoints, form_params, query, answers, sofar) ==
    IF n > Len(endpoints) THEN sofar
    ELSE LET endpoint == endpoints[n]
             sent == Append(sofar.requests,
                            GetRequest(endpoint, FormParams(form_params, query)))
         IN  IF Raises(answers[n])
             THEN [requests |-> sent, results |-> <<>>]
             ELSE FormLoop_AbortOnError(n + 1, endpoints, form_params, query, answers,
                      [requests |-> sent,
                       results |-> sofar.results
                           \o _extract_results_from_page(
                                  result_elements(EndpointPage(endpoint)), endpoint, query)])

\* The loop over search_endpoints from the n-th endpoint on.
RECURSIVE FormLoop(_, _, _, _, _, _)
FormLoop(n, endpoints, form_params, query, answers, sofar) ==
    IF n > Len(endpoints) THEN sofar
    ELSE LET endpoint == endpoints[n]
             sent == Append(sofar.requests,
                            GetRequest(endpoint, FormParams(form_params, query)))
         IN  IF Raises(answers[n])
             THEN FormLoop(n + 1, endpoints, form_params, query, answers,
                           [sofar EXCEPT !.requests = sent])
             ELSE FormLoop(n + 1, endpoints, form_params, query, answers,
                      [requests |-> sent,
                       results |-> sofar.results
                           \o _extract_results_from_page(
                                  result_elements(EndpointPage(endpoint)), endpoint, query)])

Form_search(base_url, query, info, answers) ==
    LET search_endpoints == IF info.search_endpoints = <<>> THEN <<base_url>>
                            ELSE info.search_endpoints
    IN  FormLoop(1, search_endpoints, info.search_params, query, answers,
                 [requests |-> <<>>, results |-> <<>>])

\* search_params as _analyze_search_forms records them: the text input of the
\* form with the marker, a hidden input with its value.
FormParamDicts ==
    {[param_name \in names |-> IF param_name = "q" THEN "SEARCH_TERM" ELSE "en"] :
        names \in SUBSET {"q", "lang"}}

EndpointLists == UNION {[1..len -> {SearchPageUrl, FindPageUrl}] : len \in 0..MaxEndpoints}

FormAnswers == {"request_error", "http_error", "page"}

FormInputs ==
    UNION {[search_endpoints : {endpoints}, search_params : FormParamDicts,
            answers : [1..(IF endpoints = <<>> THEN 1 ELSE Len(endpoints)) -> FormAnswers]] :
              endpoints \in EndpointLists}

InitForm ==
    /\ pc = "form_input"
    /\ arg \in FormInputs
    /\ ret = None
    /\ result = NoResult
    /\ score = 0
    /\ NoRun
    /\ HttpIdle

FormSearch ==
    /\ pc = "form_input"
    /\ ret' = Form_search(SiteUrl, "beyonce", arg, arg.answers)
    /\ pc' = "form_done"
    /\ UNCHANGED <<PLAYWRIGHT_AVAILABLE, search_terms, website_info, results,
                   results_error, strategy, i, outcomes, producer, trace, result, score,
                   main_vars, network, http_vars, arg>>

NextForm == FormSearch

SpecForm == InitForm /\ [][NextForm]_vars

(***************************************************************************)
(* Properties                                                              *)
(***************************************************************************)
Discovered == pc \in {"discovered", "loop", "done"}

NoFormNoSitemap ==
    /\ ~Get(website_info, "has_search_form", FALSE)
    /\ Get(website_info, "sitemap_urls", <<>>) = <<>>

\* C1: for every WebsiteInfo, whatever has_search_form, sitemap_urls,
\* requires_js and error are, get_best_strategy returns a strategy (the first
\* of Form, Sitemap, QueryParam that can handle it), so search_strategy is
\* never 'unknown' once discover_website_structure has completed.
C1_FallbackAlwaysExists ==
    Discovered
    => /\ get_best_strategy(website_info) # NoStrategy
       /\ get_best_strategy(website_info) =
             IF Get(website_info, "has_search_form", FALSE) THEN "Form"
             ELSE IF Get(website_info, "sitemap_urls", <<>>) # <<>> THEN "Sitemap"
             ELSE "QueryParam"
       /\ website_info.search_strategy \notin {"unknown", None}

C1_Witness ==
    /\ pc = "discovered"
    /\ PLAYWRIGHT_AVAILABLE
    /\ NoFormNoSitemap
    /\ website_info.requires_js
    /\ "error" \in DOMAIN website_info
    /\ website_info.search_strategy = "queryparam"

\* C2: a WebsiteInfo with has_search_form = true and a non-empty sitemap_urls
\* always selects the Form strategy.
C2_FormBeforeSitemap ==
    (/\ Discovered
     /\ website_info.has_search_form
     /\ website_info.sitemap_urls # <<>>)
    => /\ get_best_strategy(website_info) = "Form"
       /\ website_info.search_strategy = "form"

C2_Witness ==
    /\ pc = "discovered"
    /\ website_info.has_search_form
    /\ Len(website_info.sitemap_urls) >= 1
    /\ website_info.search_strategy = "form"

\* C3: with has_search_form = false and no sitemap URL, selection falls
\* through to QueryParam whatever the other fields are, and QueryParam is the
\* strategy scrape_data then runs for the terms.
C3_QueryParamRuns ==
    (pc = "done" /\ NoFormNoSitemap)
    => /\ get_best_strategy(website_info) = "QueryParam"
       /\ strategy = "QueryParam"
       /\ results_error = ""
       /\ i = Len(search_terms)

\* C4: when the analysis fails, the WebsiteInfo carries an error field and
\* scrape_data still enters the per-term loop and processes every search term.
C4_DiscoveryFailureDoesNotHalt ==
    (pc = "done" /\ "error" \in DOMAIN website_info)
    => /\ results_error = ""
       /\ strategy # NoStrategy
       /\ i = Len(search_terms)

\* C5: when get_strategy yields no strategy for the recorded search_strategy
\* name, scrape_data returns at once with a top-level error and an empty
\* results list; no term is searched, extracted or paused for.
C5_NoStrategyAborts ==
    (/\ pc \in {"loop", "done"}
     /\ get_strategy(Get(website_info, "search_strategy", "unknown")) = NoStrategy)
    => /\ pc = "done"
       /\ results_error # ""
       /\ results = <<>>
       /\ trace = <<>>
       /\ i = 0

C5_Witness ==
    /\ pc = "done"
    /\ strategy = NoStrategy
    /\ results_error # ""
    /\ Len(search_terms) >= 2

\* C6 as stated: when a strategy is found, the number of entries in
\* results['results'] equals the number of search terms processed.
C6_OneEntryPerTerm ==
    strategy # NoStrategy => Len(results) = i

Contribution(outcome) == IF outcome.failed THEN 1 ELSE outcome.raw_count

\* C6 amended: when a strategy is found, every term is processed and the
\* number of entries is the sum, over the terms processed, of one for a term
\* that failed and of the number of raw results its search returned otherwise.
C6_EntriesPerTerm ==
    strategy # NoStrategy
    => /\ Len(outcomes) = i
       /\ Len(results) = SeqSum([n \in 1..Len(outcomes) |-> Contribution(outcomes[n])])
       /\ pc = "done" => i = Len(search_terms)

C6_Witness ==
    /\ pc = "done"
    /\ strategy # NoStrategy
    /\ \E n \in 1..Len(outcomes) : ~outcomes[n].failed /\ outcomes[n].raw_count = 0
    /\ \E n \in 1..Len(outcomes) : ~outcomes[n].failed /\ outcomes[n].raw_count = 2
    /\ Len(results) = 2

EntriesOf(n) == {k \in 1..Len(results) : producer[k] = n}

C7_FailedTermEntry ==
    /\ \A n \in 1..Len(outcomes) :
          outcomes[n].failed
          => /\ Cardinality(EntriesOf(n)) = 1
             /\ \A k \in EntriesOf(n) :
                   results[k] = [search_term_id |-> search_terms[n].id,
                                 search_term |-> search_terms[n],
                                 error |-> "error",
                                 results_count |-> 0]
    /\ (pc = "done" /\ strategy # NoStrategy) => Len(outcomes) = Len(search_terms)

\* C7: a term whose query construction or search raises gets exactly one
\* entry {search_term_id of that term, error, results_count 0} and no other
\* entry, the entries accumulated before are left as they were, and every
\* later term is still processed.
C7_PerTermFailureIsolated ==
    /\ []C7_FailedTermEntry
    /\ [][SubSeq(results', 1, Len(results)) = results]_vars

C7_Witness ==
    /\ pc = "done"
    /\ Len(outcomes) = 2
    /\ outcomes[1].failed
    /\ ~outcomes[2].failed
    /\ outcomes[2].raw_count = 2
    /\ Len(results) = 3

\* C8: every entry of results, the entries of the extractor's per-result
\* error path included, carries the search_term_id of the term that was being
\* processed when it was produced, and the entries are grouped in term order.
C8_Traceability ==
    /\ \A k \in 1..Len(results) :
          /\ "search_term_id" \in DOMAIN results[k]
          /\ results[k].search_term_id = search_terms[producer[k]].id
    /\ \A k \in 1..(Len(results) - 1) : producer[k] <= producer[k + 1]

WithLength(r, l) == [r EXCEPT !["page_content_length"] = l]

\* C9: the quality score is within [0, 100] for every result mapping, and
\* replacing page_content_length by a larger value, all else equal, never
\* decreases it.
C9_ScoreRangeAndMonotone ==
    pc = "score_done"
    => /\ score \in 0..100
       /\ \A l \in ContentLengths :
             l >= result.page_content_length
             => _calculate_quality_score(WithLength(result, l)) >= score

C9_Witness ==
    /\ pc = "score_done"
    /\ result.page_content_length = 501
    /\ _calculate_quality_score(WithLength(result, 1200)) = score + 5
    /\ _calculate_quality_score(WithLength(result, 0)) = score - 10

AnyError(r) == r.error # None \/ r.metadata_error # None \/ r.fetch_error # None

Checklist(r) ==
    (IF r.url # EmptyUrl THEN 20 ELSE 0)
    + (IF r.title # <<>> \/ r.page_title # <<>> THEN 20 ELSE 0)
    + (IF r.description # <<>> \/ r.page_description # <<>> THEN 15 ELSE 0)
    + (IF r.page_content_length > 1000 THEN 15 ELSE 0)
    + (IF r.page_content_length > 500 /\ r.page_content_length <= 1000 THEN 10 ELSE 0)
    + (IF r.page_content_length > 100 /\ r.page_content_length <= 500 THEN 5 ELSE 0)
    + (IF Len(r.page_images) > 0 THEN 10 ELSE 0)
    + (IF Len(r.page_links) > 0 THEN 10 ELSE 0)
    + (IF AnyError(r) THEN 0 ELSE 10)

Scenario(r) ==
    /\ r.url # EmptyUrl
    /\ r.title # <<>>
    /\ r.description # <<>>
    /\ r.page_content_length = 1200
    /\ Len(r.page_images) = 2
    /\ Len(r.page_links) = 3
    /\ ~AnyError(r)

\* C10: the quality score is the additive checklist capped at 100 (+20 URL,
\* +20 title, +15 description, +15/+10/+5 for content length above
\* 1000/500/100, +10 images, +10 links, +10 no error of any of the three
\* kinds); url, title, description, length 1200, 2 images, 3 links and no
\* error score exactly 100, and a result with a recorded error at most 90.
C10_ScoreIsChecklist ==
    pc = "score_done"
    => /\ score = (IF Checklist(result) > 100 THEN 100 ELSE Checklist(result))
       /\ Scenario(result) => score = 100
       /\ AnyError(result) => score <= 90

C10_Witness ==
    /\ pc = "score_done"
    /\ Scenario(result)
    /\ score = 100

\* The position in results before the first entry of term n.
Offset(n) == Cardinality({k \in 1..Len(results) : producer[k] < n})

\* C11: extract_data returns exactly one entry per raw result, in input order;
\* the entry of a result whose enrichment raised is that raw result plus an
\* error field, and every other result of the batch, before or after it, is
\* enriched.
C11_ResultsProcessedIndependently ==
    \A n \in 1..Len(outcomes) :
        ~outcomes[n].failed
        => LET raw == outcomes[n].search_results
               enrich == outcomes[n].enrich
           IN  /\ Cardinality(EntriesOf(n)) = Len(raw)
               /\ \A k \in 1..Len(raw) :
                     LET entry == results[Offset(n) + k]
                     IN  /\ producer[Offset(n) + k] = n
                         /\ enrich[k] = "raises"
                            => entry = Update(raw[k], [error |-> "error"])
                         /\ enrich[k] # "raises"
                            => /\ entry.url = raw[k].url
                               /\ entry.search_term_id = search_terms[n].id
                               /\ "data_quality_score" \in DOMAIN entry
                               /\ "error" \notin DOMAIN entry

C11_Witness ==
    \E n \in 1..Len(outcomes) :
        /\ ~outcomes[n].failed
        /\ outcomes[n].enrich = <<"raises", "ok">>
        /\ "error" \in DOMAIN results[Offset(n) + 1]
        /\ results[Offset(n) + 2].page_content_length = 1200

\* The raw results of finished terms whose enrichment ended in the given way.
EnrichedWith(outcome) ==
    {nk \in (1..Len(outcomes)) \X (1..MaxRaw + 1) :
        /\ ~outcomes[nk[1]].failed
        /\ nk[2] <= Len(outcomes[nk[1]].search_results)
        /\ outcomes[nk[1]].enrich[nk[2]] = outcome}

RawOf(nk) == outcomes[nk[1]].search_results[nk[2]]

EntryOf(nk) == results[Offset(nk[1]) + nk[2]]

BaseFields == {"url", "title", "description", "query", "source_url"}

C13_ValidateUrlIdempotent ==
    (pc = "url_input" /\ ret # <<>>)
    => /\ \A k \in 1..Len(ret) : ret[k] = ret[1]
       /\ ret[1] \in {arg, EmptyUrl}
       /\ ret[1] = arg <=> \/ arg = EmptyUrl
                           \/ ~urlparse_raises(arg) /\ arg.scheme # "" /\ arg.netloc # ""

C13_Witness ==
    /\ pc = "url_input"
    /\ Len(ret) = 2
    /\ arg = Url("ftp", "site", "/r1")
    /\ ret[2] = arg

\* The valid results of the page's candidate elements, before deduplication.
Candidates == ExtractValid(arg, SearchPageUrl, <<"q">>)

\* The candidates that no earlier candidate shares its URL with.
FirstOfUrl ==
    {c \in 1..Len(Candidates) : \A b \in 1..(c - 1) : Candidates[b].url # Candidates[c].url}

\* C14: in the list returned for one page no two results share a URL; of
\* the candidates with one URL the first encountered is the one kept, and
\* the kept results are in encounter order.
C14_DedupKeepsFirst ==
    pc = "page_done"
    => /\ \A j, k \in 1..Len(ret) : ret[j].url = ret[k].url => j = k
       /\ Len(ret) = Cardinality(FirstOfUrl)
       /\ \A c \in FirstOfUrl :
             ret[Cardinality({b \in FirstOfUrl : b <= c})] = Candidates[c]

C14_Witness ==
    /\ pc = "page_done"
    /\ Len(arg) = 3
    /\ arg[1].href = Url("", "", "/r2") /\ arg[1].title = <<>>
    /\ arg[2].href = Url("", "", "/r1")
    /\ arg[3].href = Url("http", "site", "/r1")
    /\ Len(ret) = 2
    /\ ret[2].title = <<"A", "b", "c">>

\* The values of the given keys that the term has, in the given order.
RECURSIVE ValuesOf(_, _)
ValuesOf(keys, search_term) ==
    IF keys = <<>> THEN <<>>
    ELSE (IF Head(keys) \in DOMAIN search_term THEN <<search_term[Head(keys)]>> ELSE <<>>)
         \o ValuesOf(Tail(keys), search_term)

SpaceJoined(values) == strip(join(<<" ">>, [n \in 1..Len(values) |-> values[n].val]))

\* C15: when the term has Artist and/or Title the query is those fields,
\* Artist first, joined by a single space, and no other field contributes;
\* when it has neither, the query is its non-id string values joined by
\* spaces.
C15_QueryConstruction ==
    pc = "query_done"
    => /\ ~ret.raises
       /\ ret.query = IF "Artist" \in DOMAIN arg \/ "Title" \in DOMAIN arg
                      THEN SpaceJoined(ValuesOf(<<"Artist", "Title">>, arg))
                      ELSE SpaceJoined(SelectSeq(ValuesOf(Tail(KeyOrder), arg), isinstance_str))

\* The scenario of C15 and the fallback, where the code does what is claimed.
C15_Scenario ==
    \/ /\ pc = "query_done"
       /\ arg = Term(IntV(1), StrV(<<"Beyonce">>), StrV(<<"Single", " ", "Ladies">>), Absent, Absent)
       /\ ret = [raises |-> FALSE, query |-> <<"Beyonce", " ", "Single", " ", "Ladies">>]
    \/ /\ pc = "query_done"
       /\ arg = Term(IntV(1), Absent, Absent, StrV(<<"q">>), StrV(<<"n">>))
       /\ ret = [raises |-> FALSE, query |-> <<"q", " ", "n">>]

\* The URLs the claim calls invalid: empty, without scheme or host, or not http/https.
InvalidUrl(url) ==
    url = EmptyUrl \/ url.scheme = "" \/ url.netloc = "" \/ url.scheme \notin {"http", "https"}

\* A non-empty list of mappings, each with an id and a non-empty string among
\* Artist, Title, query, search and term.
WellFormedTerms(v) ==
    /\ v.type = "list"
    /\ v.val # <<>>
    /\ \A n \in 1..Len(v.val) :
          /\ v.val[n].type = "dict"
          /\ "id" \in DOMAIN v.val[n].val
          /\ \E f \in {"Artist", "Title", "query", "search", "term"} :
                /\ f \in DOMAIN v.val[n].val
                /\ v.val[n].val[f].type = "str"
                /\ v.val[n].val[f].val # <<>>

\* C16: when the URL or the search-terms input is invalid, main() ends with
\* exit status 1 as its next step, and no engine was constructed, no HTTP
\* request issued and no output file written.
C16_InvalidInputIsFatal ==
    (pc # "main" /\ (InvalidUrl(argv.url) \/ ~WellFormedTerms(argv.search_terms)))
    => /\ pc = "exit"
       /\ exit_code = 1
       /\ ~engine
       /\ ~network
       /\ ~output_written
       /\ website_info = website_info_defaults
       /\ results = <<>>
       /\ trace = <<>>

C16_Witness ==
    /\ pc = "exit"
    /\ exit_code = 1
    /\ ~network
    /\ argv.url = SiteUrl
    /\ argv.search_terms.type = "list"
    /\ Len(argv.search_terms.val) = 2
    /\ validate_search_terms(ListV(<<argv.search_terms.val[1]>>))
    /\ argv.search_terms.val[2].type = "dict"
    /\ "id" \notin DOMAIN argv.search_terms.val[2].val

\* The number of sub-probes that completed.
Completed ==
    IF arg.failAt > NumProbes THEN NumProbes
    ELSE IF arg.failAt = 0 THEN 0
    ELSE arg.failAt - 1

ProbeOutput(k) == Probe(k, arg.page, arg.head200, arg.robots)

\* C17: whatever the homepage fetch and the sub-probes do, analyze_website
\* returns a mapping with all default keys; when a step fails the mapping
\* has an error field and holds the output of every sub-probe that completed
\* before the failure.
C17_AnalysisNeverRaises ==
    pc = "analyze_done"
    => /\ DOMAIN analysis_defaults \subseteq DOMAIN ret
       /\ "error" \in DOMAIN ret <=> arg.failAt <= NumProbes
       /\ \A k \in 1..Completed : \A key \in DOMAIN ProbeOutput(k) :
             key \in DOMAIN ret /\ ret[key] = ProbeOutput(k)[key]

\* What holds of the retained outputs: every key other than sitemap_urls.
C17_RetainedExceptSitemapUrls ==
    pc = "analyze_done"
    => /\ DOMAIN analysis_defaults \subseteq DOMAIN ret
       /\ "error" \in DOMAIN ret <=> arg.failAt <= NumProbes
       /\ \A k \in 1..Completed : \A key \in DOMAIN ProbeOutput(k) \ {"sitemap_urls"} :
             key \in DOMAIN ret /\ ret[key] = ProbeOutput(k)[key]

\* C18: after a successful analysis sitemap_urls holds every well-known path
\* that answered HEAD with 200, in probe order, followed by every URL of a
\* 'sitemap:' line of robots.txt.
C18_SitemapUrlsAccumulate ==
    (pc = "analyze_done" /\ arg.failAt > NumProbes)
    => ret.sitemap_urls = ProbePaths(SitemapPaths, arg.head200)
                          \o (IF arg.robots.status_code = 200 THEN arg.robots.refs ELSE <<>>)

Pauses(n) == {k \in 1..Len(trace) : trace[k].ev = "sleep" /\ trace[k].term = n}

\* C19: after every processed term but the last there is one pause, whether
\* the term succeeded or ended in a per-term error, and it comes before the
\* first request of any later term; no pause follows the last term.
C19_ThrottlingUnconditional ==
    \A n \in 1..i :
        /\ n < Len(search_terms) => Cardinality(Pauses(n)) = 1
        /\ n = Len(search_terms) => Pauses(n) = {}
        /\ \A k \in Pauses(n) : \A j \in 1..Len(trace) : trace[j].term > n => k < j

\* The requests of the c-th call, in the order they were sent.
RequestsOf(c) == SelectSeq(http_log, LAMBDA e : e.call = c)

C20_OneReissue ==
    \A c \in 1..response.call :
        LET sent == RequestsOf(c)
        IN  /\ sent # <<>>
            /\ sent[1].backend = IF use_pycurl THEN "pycurl" ELSE "requests"
            /\ (sent[1].backend = "pycurl" /\ sent[1].outcome = "raises")
               => /\ Len(sent) = 2
                  /\ sent[2].backend = "requests"
                  /\ c = response.call
                     => response.backend = "requests" /\ response.outcome = sent[2].outcome
            /\ ~(sent[1].backend = "pycurl" /\ sent[1].outcome = "raises")
               => Len(sent) = 1

\* C20: when the pycurl backend raises during a get, post or head, that call
\* is sent once more, through requests, and the caller gets what that
\* request ends with, without further retry; use_pycurl never changes, so
\* every call of a pycurl client tries pycurl first.
C20_FallbackPerCall ==
    []C20_OneReissue /\ [][use_pycurl' = use_pycurl]_vars

C20_Witness ==
    /\ use_pycurl
    /\ response.call = 2
    /\ Len(http_log) = 3
    /\ http_log[1].method = "POST" /\ http_log[1].outcome = "raises"
    /\ http_log[2].backend = "requests" /\ http_log[2].outcome = "raises"
    /\ http_log[3].backend = "pycurl" /\ http_log[3].method = "HEAD"

\* C21: when the engine is built with use_pycurl=False (--no-pycurl), no
\* request of discovery, of a strategy's search or of metadata extraction is
\* handed to the pycurl backend.
C21_BackendChoiceHonoured ==
    argv.no_pycurl => \A k \in 1..Len(http_log) : http_log[k].backend # "pycurl"

\* C22: when selection chose a strategy of kind Form, Sitemap or QueryParam,
\* the name stored in search_strategy resolves through get_strategy to a
\* strategy of that kind, and that is the strategy scrape_data holds.
C22_NameRoundTrip ==
    \A K \in {"Form", "Sitemap", "QueryParam"} :
        (Discovered /\ get_best_strategy(website_info) = K)
        => /\ get_strategy(website_info.search_strategy) = K
           /\ pc \in {"loop", "done"} => strategy = K

\* C23: the candidates of the Form heuristic are the elements the first
\* matching selector matches, and nothing that only a later selector
\* matches; the link fallback is used only when no selector matches.
C23_FirstMatchingSelectorOnly ==
    (pc = "select_done" /\ ret.strategy = "form")
    => LET matching == {k \in 1..Len(result_selectors) :
                           \E n \in 1..Len(arg) : Selects(result_selectors[k], arg[n])}
       IN  IF matching = {}
           THEN ret.result_elements = content_links(arg)
           ELSE \E first \in matching :
                   /\ \A j \in matching : first <= j
                   /\ ret.result_elements
                      = SelectSeq(arg, LAMBDA element : Selects(result_selectors[first], element))

\* C25: for the same page QueryParam's results are Form's results: invalid
\* candidates excluded, duplicate URLs removed keeping the first.
C25_QueryParamSameAsForm ==
    (pc = "select_done" /\ ret.strategy = "query_param")
    => ret.results = _extract_results_from_page(result_elements(arg), SearchPageUrl, <<"q">>)

\* C24: QueryParam search sends one GET of base_url per parameter name, in
\* the order q, query, search, s, term, keyword, with only that parameter set
\* to the query; a request that fails is followed by the next name; the first
\* answer recognised as a results page ends the requests and is the only
\* source of results; with no recognised answer the result is empty.
C24_StopsAtFirstResultsPage ==
    pc = "param_done"
    => LET recognised == {n \in 1..6 : arg[n] = "results_page"}
           names == <<"q", "query", "search", "s", "term", "keyword">>
           last == IF recognised = {} THEN 6
                   ELSE CHOOSE n \in recognised : \A k \in recognised : n <= k
       IN  /\ Len(ret.requests) = last
           /\ \A n \in 1..last :
                 /\ ret.requests[n].method = "GET"
                 /\ ret.requests[n].url = SearchPageUrl
                 /\ DOMAIN ret.requests[n].params = {names[n]}
                 /\ ret.requests[n].params[names[n]] = <<"q">>
           /\ IF recognised = {} THEN ret.results = <<>>
              ELSE /\ Len(ret.results) = 1
                   /\ ret.results[1].title = <<"A", "b", "c", ToString(last)>>

C24_Witness ==
    /\ pc = "param_done"
    /\ arg[1] = "request_error"
    /\ arg[2] = "other_page"
    /\ arg[3] = "results_page"
    /\ arg[5] = "results_page"
    /\ Len(ret.requests) = 3
    /\ Len(ret.results) = 1

\* The endpoints Form search has to query for the input.
EndpointsOf(input) ==
    IF input.search_endpoints = <<>> THEN <<SiteUrl>> ELSE input.search_endpoints

\* C26: Form search sends one GET per discovered endpoint, in order (one GET
\* of base_url when none was discovered), with the query in place of every
\* SEARCH_TERM marker and every other parameter unchanged; an endpoint whose
\* request fails contributes no result, and every result of every endpoint
\* that answered, before or after a failed one, is in the returned list.
C26_FormQueriesEveryEndpoint ==
    pc = "form_done"
    => LET endpoints == EndpointsOf(arg)
       IN  /\ Len(ret.requests) = Len(endpoints)
           /\ \A n \in 1..Len(endpoints) :
                 /\ ret.requests[n].method = "GET"
                 /\ ret.requests[n].url = endpoints[n]
                 /\ DOMAIN ret.requests[n].params = DOMAIN arg.search_params
                 /\ "q" \in DOMAIN arg.search_params => ret.requests[n].params["q"] = "beyonce"
                 /\ "lang" \in DOMAIN arg.search_params => ret.requests[n].params["lang"] = "en"
           /\ \A k \in 1..Len(ret.results) :
                 \E n \in 1..Len(endpoints) :
                    arg.answers[n] = "page" /\ ret.results[k].source_url = endpoints[n]
           /\ \A n \in 1..Len(endpoints) :
                 arg.answers[n] = "page"
                 => \A element \in {EndpointPage(endpoints[n])[e] :
                                      e \in 1..Len(EndpointPage(endpoints[n]))} :
                       \E k \in 1..Len(ret.results) :
                          /\ ret.results[k].source_url = endpoints[n]
                          /\ ret.results[k].url = urljoin(endpoints[n], element.href)

C26_Witness ==
    /\ pc = "form_done"
    /\ arg.search_endpoints = <<FindPageUrl, SearchPageUrl>>
    /\ DOMAIN arg.search_params = {"q", "lang"}
    /\ arg.answers[1] = "request_error"
    /\ arg.answers[2] = "page"
    /\ Len(ret.requests) = 2
    /\ Len(ret.results) = 1

\* C30: the list Form search returns holds no two results with the same URL,
\* and no endpoint is requested twice for one query.
C30_FormResultsUnique ==
    pc = "form_done"
    => /\ \A j, k \in 1..Len(ret.results) : j < k => ret.results[j].url # ret.results[k].url
       /\ \A j, k \in 1..Len(ret.requests) : j < k => ret.requests[j].url # ret.requests[k].url

\* C27: for every term validate_search_terms accepts, _create_search_query
\* returns without raising and the query it returns is not empty.
C27_AcceptedTermHasQuery ==
    pc = "query_done" => (~ret.raises /\ ret.query # <<>>)

\* C28: once discover_website_structure has returned, no step of scrape_data
\* (obtaining the strategy, a term whose query or search raises, a term whose
\* results are extracted, with or without failing enrichments) changes any
\* field of website_info, so the website_info of the output metadata is the
\* discovery result.
C28_WebsiteInfoReadOnly ==
    [][(pc \in {"discovered", "loop", "done"}) => (website_info' = website_info)]_vars

C28_Witness ==
    /\ pc = "done"
    /\ website_info.has_search_form
    /\ website_info.search_strategy = "form"
    /\ Len(outcomes) = 2
    /\ outcomes[1].failed
    /\ ~outcomes[2].failed
    /\ \E k \in 1..Len(outcomes[2].enrich) : outcomes[2].enrich[k] # "ok"

\* C29: when the pycurl request of a call raised, the request reissued
\* through requests has the method, the body data and the caller's headers of
\* the failed one.
C29_FallbackSameRequest ==
    \A c \in 1..response.call :
        LET sent == RequestsOf(c)
        IN  (Len(sent) = 2 /\ sent[1].backend = "pycurl" /\ sent[1].outcome = "raises")
            => /\ sent[2].method = sent[1].method
               /\ sent[2].data = sent[1].data
               /\ sent[2].headers = sent[1].headers

====
